---- MODULE Spec2Model ----
(***************************************************************************)
(* CS Programs ChromaDB query tool: the CSProgramsDB class and main() of   *)
(* cs_programs_default_embedding.py (the notebook cells 5-7 run the same   *)
(* recreate + batch loop at module level).                                 *)
(*                                                                         *)
(* The persistent client holds at most one collection under                *)
(* collection_name.  Every successful client.create_collection makes a new *)
(* generation; a handle (self.collection) is the generation it was given.  *)
(* A row of the dataset is its ordinal position 0..n-1; the text and the   *)
(* metadata synthesized from row r are <<"doc", r>> and <<"meta", r>>.     *)
(***************************************************************************)
EXTENDS Integers, Sequences, FiniteSets

VARIABLES
    store,       \* the collection persisted under collection_name
    nextGen,     \* generations created so far + 1
    collection,  \* self.collection: None or the generation of the handle
    data,        \* (documents, metadatas, ids) last returned by load_and_process_data
    pc,          \* position inside create_collection, "idle" between calls
    i,           \* loop variable of the batch loop (row offset)
    run,         \* bookkeeping of the current / last create_collection call
    mainpc,      \* position inside main(), "none" when the class is driven directly
    qn,          \* number of the example query main() is at
    ret,         \* what the last finished method returned or raised
    qoutcome,    \* what really happened inside the last query_programs call
    out,         \* what the last method wrote to the console
    calls,       \* client / collection calls made by the operation in progress
    found,       \* whether the collection existed when main() started
    admission    \* one process_admission_data call: its argument and its result

vars == <<store, nextGen, collection, data, pc, i, run, mainpc, qn, ret,
          qoutcome, out, calls, found, admission>>

----------------------------------------------------------------------------
(* Bounds of the model *)

MaxRows == 23
MaxBuilds == 3
MaxCases == 2

(* Program constants *)

batch_size == 10
MainQueries == 4

None == 0

----------------------------------------------------------------------------
(* Values *)

\* A Python value: its type tag, its truth when a bool, its keys and the value under
\* 'documents' when a dict
NoneValue == [tag |-> "None", b |-> FALSE, keys |-> {}, documents |-> <<>>]
BoolValue(b) == [tag |-> "bool", b |-> b, keys |-> {}, documents |-> <<>>]
ErrorValue(name) == [tag |-> name, b |-> FALSE, keys |-> {}, documents |-> <<>>]
\* the dict {}
EmptyDict == [tag |-> "dict", b |-> FALSE, keys |-> {}, documents |-> <<>>]
\* the dict collection.query returns: each key holds one list per query text
QueryResult(docs) ==
    [tag |-> "dict", b |-> FALSE,
     keys |-> {"ids", "documents", "metadatas", "distances"},
     documents |-> <<docs>>]

Returned(op, v) == [op |-> op, kind |-> "return", value |-> v]
Raised(op, name) == [op |-> op, kind |-> "raise", value |-> ErrorValue(name)]
NoRet == [op |-> "none", kind |-> "none", value |-> NoneValue]

Quiet == [failedBatch |-> 0, count |-> -1, queryFailed |-> FALSE, printed |-> "none",
          totalBatches |-> -1]

NoStore == [exists |-> FALSE, gen |-> 0, items |-> <<>>]

Min(a, b) == IF a < b THEN a ELSE b

SliceInclusive(seq, lo, hi) == SubSeq(seq, lo + 1, Min(hi + 1, Len(seq)))

\* Python slice seq[lo:hi] of a 0-based list held as a 1-based sequence
Slice(seq, lo, hi) == SubSeq(seq, lo + 1, Min(hi, Len(seq)))

----------------------------------------------------------------------------
(* Record synthesis: load_and_process_data *)

ProgramIdOneBased(index) == <<"program_", index + 1>>

\* f"program_{index}"
ProgramId(index) == <<"program_", index>>

\* dataset sizes tried: the multiples of batch_size and the sizes that leave the
\* same short last batch as MaxRows does
RowCounts == {n \in 0..MaxRows : n % batch_size \in {0, MaxRows % batch_size}}

create_document_text(row) == <<"doc", row>>

Metadata(row) == <<"meta", row>>

\* the three parallel lists built by the loop over df.iterrows()
Synthesized(n) ==
    [documents |-> [j \in 1..n |-> create_document_text(j - 1)],
     metadatas |-> [j \in 1..n |-> Metadata(j - 1)],
     ids       |-> [j \in 1..n |-> ProgramId(j - 1)],
     loaded    |-> TRUE]

\* no batch handed to collection.add yet
NoBatch == [documents |-> <<>>, metadatas |-> <<>>, ids |-> <<>>]

NoData == [documents |-> <<>>, metadatas |-> <<>>, ids |-> <<>>, loaded |-> FALSE]

\* os.path.exists fails, or row['<column>'] raises KeyError inside the loop
LoadError(csvExists, colsOK) ==
    IF ~csvExists THEN "FileNotFoundError"
    ELSE IF ~colsOK THEN "KeyError"
    ELSE "ok"

----------------------------------------------------------------------------
(* Admission history: process_admission_data *)

\* A piece of the field's text, and after json.loads the Python value it denotes.
\*   t     : "list", "dict", "str", "num", "true" (the JSON literal),
\*           "pyliteral" (None / True / False as Python prints them), "garbage"
\*   q     : the quote character around a string, "none" otherwise
\*   inner : a quote character inside a string: "none", "apostrophe", "dquote"
\*   blank : the string has no characters
\*   key, kq : inside a dict, the key this value stands under and the quote
\*           character around the key
\*   body  : the elements of a list, the key/value pairs of a dict
Node(t, q, inner, blank, body) ==
    [t |-> t, q |-> q, inner |-> inner, blank |-> blank, key |-> "", kq |-> "none",
     body |-> body]

Num == Node("num", "none", "none", FALSE, <<>>)
JsonTrue == Node("true", "none", "none", FALSE, <<>>)
PyLiteral == Node("pyliteral", "none", "none", FALSE, <<>>)
Garbage == Node("garbage", "none", "none", FALSE, <<>>)
Str(q, inner, blank) == Node("str", q, inner, blank, <<>>)
ListOf(elems) == Node("list", "none", "none", FALSE, elems)
DictOf(pairs) == Node("dict", "none", "none", FALSE, pairs)
Pair(key, kq, value) == [value EXCEPT !.key = key, !.kq = kq]

NoNode == Node("none", "none", "none", FALSE, <<>>)

\* the argument: a string cell (empty, the text null, or other text) or, when pandas
\* read the column as numbers, a number
Field(type, form, tree) == [type |-> type, form |-> form, tree |-> tree]

\* the keys a case is asked for, in the order of the rendered sentence
CaseKeys == <<"term", "outcome", "school", "major", "gpa", "research", "internship">>

RECURSIVE Normalise(_)
\* admission_data_str.replace("'", '"'): every apostrophe becomes a double quote,
\* around a string, around a key and inside a string
Normalise(node) ==
    [node EXCEPT
        !.q     = IF @ = "single" THEN "double" ELSE @,
        !.kq    = IF @ = "single" THEN "double" ELSE @,
        !.inner = IF @ = "apostrophe" THEN "dquote" ELSE @,
        !.body  = [j \in 1..Len(node.body) |-> Normalise(node.body[j])]]

RECURSIVE WellFormed(_)
\* whether json.loads accepts the text: strings and keys in double quotes with no
\* bare double quote inside, JSON literals only
WellFormed(node) ==
    /\ node.t \in {"list", "dict", "str", "num", "true"}
    /\ node.t = "str" => (node.q = "double" /\ node.inner = "none")
    /\ node.key # "" => node.kq = "double"
    /\ \A j \in 1..Len(node.body) : WellFormed(node.body[j])

\* `for case in data_list`: the elements of a list, the keys of a dict, the
\* characters of a str; anything else is not iterable (TypeError)
Iterable(value) == value.t \in {"list", "dict", "str"}

Iterate(value) ==
    CASE value.t = "list" -> value.body
      [] value.t = "dict" ->
            [j \in 1..Len(value.body) |-> Str("double", "none", FALSE)]
      [] value.t = "str"  ->
            IF value.blank THEN <<>> ELSE <<Str("double", "none", FALSE)>>
      [] OTHER -> <<>>

\* only a dict has .get (AttributeError otherwise)
HasGet(value) == value.t = "dict"

Has(case, key) == \E j \in 1..Len(case.body) : case.body[j].key = key

Lookup(case, key) == case.body[CHOOSE j \in 1..Len(case.body) : case.body[j].key = key]

\* how an f-string shows a parsed value
Shown(value) ==
    CASE value.t = "str"  -> IF value.blank THEN "" ELSE "text"
      [] value.t = "num"  -> "1"
      [] value.t = "true" -> "True"
      [] OTHER -> "?"

Truthy(value) ==
    CASE value.t = "str" -> ~value.blank
      [] value.t \in {"list", "dict"} -> value.body # <<>>
      [] OTHER -> TRUE

\* case.get(key, 'N/A')
Get(case, key) == IF Has(case, key) THEN Shown(Lookup(case, key)) ELSE "N/A"

\* the sentence rendered for one case: the seven fields in order, and the trailing
\* note when case.get('其他（语言/推荐信）') is truthy
Sentence(case) ==
    [fields |-> [j \in 1..Len(CaseKeys) |-> Get(case, CaseKeys[j])],
     other  |-> IF Has(case, "other") /\ Truthy(Lookup(case, "other"))
                THEN Shown(Lookup(case, "other")) ELSE "absent"]

Sentinel == [kind |-> "sentinel", raw |-> NoNode, cases |-> <<>>]
\* f"录取数据: {admission_data_str}"
Fallback(field) == [kind |-> "fallback", raw |-> field.tree, cases |-> <<>>]
\* " ".join(cases)
Narrative(cases) == [kind |-> "narrative", raw |-> NoNode, cases |-> cases]
Pending == [kind |-> "pending", raw |-> NoNode, cases |-> <<>>]

\* `not admission_data_str or admission_data_str == 'null'`
NoHistory(field) == field.form \in {"empty", "zero", "null"}

ProcessAdmission(field) ==
    IF NoHistory(field) THEN Sentinel
    ELSE IF field.type # "str" THEN Fallback(field)        \* .replace: AttributeError
    ELSE LET data_list == Normalise(field.tree) IN
         IF ~WellFormed(data_list) THEN Fallback(field)     \* JSONDecodeError
         ELSE IF ~Iterable(data_list) THEN Fallback(field)  \* TypeError
         ELSE LET cases == Iterate(data_list) IN
              IF \E j \in 1..Len(cases) : ~HasGet(cases[j])
              THEN Fallback(field)                          \* AttributeError
              ELSE Narrative([j \in 1..Len(cases) |-> Sentence(cases[j])])

NoCall == [field |-> Field("str", "empty", NoNode), stage |-> "none", result |-> Pending]

(* the arguments tried *)

StringTexts ==
    {Str(q, inner, blank) : q \in {"single", "double"},
                            inner \in {"none", "apostrophe"}, blank \in BOOLEAN}

CaseValues == {Str("single", "none", FALSE), Str("single", "none", TRUE),
               Str("double", "apostrophe", FALSE), Num, PyLiteral}

DictTexts ==
    {DictOf(<<>>)}
    \cup {DictOf(<<Pair(k, "single", v)>>) : k \in {"term", "other"}, v \in CaseValues}
    \cup {DictOf(<<Pair("term", "single", v), Pair("other", "single", w)>>) :
             v \in {Str("single", "none", FALSE)}, w \in CaseValues}

Elements == DictTexts \cup {Num, Str("single", "none", FALSE), ListOf(<<>>)}

ListTexts ==
    UNION {{ListOf(elems) : elems \in [1..k -> Elements]} : k \in 0..MaxCases}

Fields ==
    {Field("str", "empty", NoNode), Field("str", "null", NoNode),
     Field("number", "zero", Num), Field("number", "nonzero", Num)}
    \cup {Field("str", "text", tree) :
             tree \in StringTexts \cup DictTexts \cup ListTexts
                      \cup {Num, JsonTrue, PyLiteral, Garbage}}

----------------------------------------------------------------------------
(* The collection store, as the client and the collection handle expose it *)

\* the entries one collection.add(documents, metadatas, ids) call writes
Entries(docs, metas, ids, gen) ==
    [j \in 1..Len(ids) |->
        [id |-> ids[j], document |-> docs[j], metadata |-> metas[j], gen |-> gen]]

IdsOf(items) == {items[j].id : j \in 1..Len(items)}

\* the store refuses an add that repeats an id, inside the batch or against the
\* collection: ids stay unique whatever the caller sends
AddRejected(items, ids) ==
    \/ Cardinality({ids[j] : j \in 1..Len(ids)}) # Len(ids)
    \/ IdsOf(items) \cap {ids[j] : j \in 1..Len(ids)} # {}

\* whether the handle still names the collection persisted under collection_name
Live(handle) == handle # None /\ store.exists /\ store.gen = handle

----------------------------------------------------------------------------
(* main(): which step follows which *)

MainNextBuildFirst(stage, ok) ==
    CASE stage = "open"  -> IF ok THEN "stats" ELSE "build"
      [] stage = "build" -> "load"
      [] stage = "load"  -> IF ok THEN "stats" ELSE "done"
      [] stage = "stats" -> "query"
      [] stage = "query" -> "print"
      [] stage = "print" -> IF ok THEN "query" ELSE "done"
      [] OTHER -> stage

MainNextAlwaysBuild(stage, ok) ==
    CASE stage = "open"  -> "load"
      [] stage = "load"  -> IF ok THEN "build" ELSE "done"
      [] stage = "build" -> IF ok THEN "stats" ELSE "done"
      [] stage = "stats" -> "query"
      [] stage = "query" -> "print"
      [] stage = "print" -> IF ok THEN "query" ELSE "done"
      [] OTHER -> stage

\* `ok` is: get_existing_collection returned True / the call in the try block did
\* not raise / another example query is left
MainNext(stage, ok) ==
    CASE stage = "open"  -> IF ok THEN "stats" ELSE "load"
      [] stage = "load"  -> IF ok THEN "build" ELSE "done"
      [] stage = "build" -> IF ok THEN "stats" ELSE "done"
      [] stage = "stats" -> "query"
      [] stage = "query" -> "print"
      [] stage = "print" -> IF ok THEN "query" ELSE "done"
      [] OTHER -> stage

\* a method called on its own starts a fresh record of backend calls; inside main()
\* the record runs from the start of main()
CallsSoFar == IF mainpc = "none" THEN {} ELSE calls

Init ==
    /\ store = NoStore
    /\ nextGen = 1
    /\ collection = None
    /\ data = NoData
    /\ pc = "idle"
    /\ i = 0
    /\ run = [recreate |-> FALSE, existed |-> FALSE, same |-> FALSE, fault |-> FALSE,
              attempts |-> <<>>, failedAt |-> -1, sizes |-> <<>>, batch |-> NoBatch]
    /\ mainpc = "none"
    /\ qn = 0
    /\ ret = NoRet
    /\ qoutcome = "none"
    /\ out = Quiet
    /\ calls = {}
    /\ found = FALSE
    /\ admission = NoCall

\* CSProgramsDB(): a new object over the same persistent path
NewInstance ==
    /\ pc = "idle"
    /\ mainpc \in {"none", "done"}
    /\ collection' = None
    /\ data' = NoData
    /\ mainpc' = "none"
    /\ qn' = 0
    /\ ret' = NoRet
    /\ qoutcome' = "none"
    /\ out' = Quiet
    /\ calls' = {}
    /\ found' = FALSE
    /\ UNCHANGED <<store, nextGen, pc, i, run, admission>>

\* main() up to and including db = CSProgramsDB()
main_start ==
    /\ pc = "idle"
    /\ mainpc \in {"none", "done"}
    /\ collection' = None
    /\ data' = NoData
    /\ mainpc' = "open"
    /\ qn' = 0
    /\ ret' = NoRet
    /\ qoutcome' = "none"
    /\ out' = Quiet
    /\ calls' = {}
    /\ found' = store.exists
    /\ UNCHANGED <<store, nextGen, pc, i, run, admission>>

get_existing_collection ==
    /\ pc = "idle"
    /\ mainpc \in {"none", "open"}
    /\ IF store.exists
       THEN /\ collection' = store.gen
            /\ ret' = Returned("get_existing_collection", BoolValue(TRUE))
            /\ out' = [Quiet EXCEPT !.count = Len(store.items)]
            /\ calls' = CallsSoFar \cup {"get_collection", "count"}
       ELSE /\ collection' = collection
            /\ ret' = Returned("get_existing_collection", BoolValue(FALSE))
            /\ out' = Quiet
            /\ calls' = CallsSoFar \cup {"get_collection", "list_collections"}
    /\ mainpc' = MainNext(mainpc, store.exists)
    /\ UNCHANGED <<store, nextGen, data, pc, i, run, qn, qoutcome, found, admission>>

load_and_process_data(csvExists, colsOK, n) ==
    /\ pc = "idle"
    /\ mainpc \in {"none", "load"}
    /\ LET err == LoadError(csvExists, colsOK) IN
       IF err = "ok"
       THEN /\ data' = Synthesized(n)
            /\ ret' = Returned("load_and_process_data", NoneValue)
            /\ mainpc' = MainNext(mainpc, TRUE)
       ELSE /\ data' = data
            /\ ret' = Raised("load_and_process_data", err)
            /\ mainpc' = MainNext(mainpc, FALSE)
    /\ out' = Quiet
    /\ calls' = CallsSoFar
    /\ UNCHANGED <<store, nextGen, collection, pc, i, run, qn, qoutcome, found, admission>>

----------------------------------------------------------------------------
(* create_collection *)

NeverDelete(recreate) == FALSE

\* `if recreate:` guarding the delete
ShouldDelete(recreate) == recreate

DeleteErrorRaised == FALSE

\* the bare `except:` around client.delete_collection
DeleteErrorSwallowed == TRUE

BatchNumZeroBased(offset) == offset \div batch_size

\* batch_num = (i // batch_size) + 1
BatchNum(offset) == (offset \div batch_size) + 1

\* total_batches = (len(documents) + batch_size - 1) // batch_size
total_batches(n) == (n + batch_size - 1) \div batch_size

AfterFailedAddContinue(offset, n) ==
    [pc |-> IF offset + batch_size < n THEN "batch" ELSE "finish",
     i  |-> offset + batch_size]

\* `break` in the except branch of the batch loop
AfterFailedAdd(offset, n) == [pc |-> "finish", i |-> offset]

\* the call, `if recreate:` and the try/except around client.delete_collection
create_collection_delete(recreate, fault) ==
    /\ pc = "idle"
    /\ mainpc \in {"none", "build"}
    /\ mainpc = "none" => data.loaded
    /\ mainpc = "build" => recreate
    /\ nextGen <= MaxBuilds
    /\ fault => (recreate /\ store.exists)
    /\ LET del    == ShouldDelete(recreate)
           delOK  == del /\ store.exists /\ ~fault
           delErr == del /\ ~delOK
       IN  /\ store' = IF delOK THEN NoStore ELSE store
           /\ calls' = CallsSoFar \cup (IF del THEN {"delete_collection"} ELSE {})
           /\ IF delErr /\ ~DeleteErrorSwallowed
              THEN /\ pc' = "idle"
                   /\ ret' = Raised("create_collection", "DeleteError")
                   /\ mainpc' = MainNext(mainpc, FALSE)
              ELSE /\ pc' = "create"
                   /\ ret' = NoRet
                   /\ mainpc' = mainpc
    /\ run' = [recreate |-> recreate, existed |-> store.exists,
               same |-> store.exists /\ Len(store.items) = Len(data.ids)
                          /\ \A j \in 1..Len(data.ids) : store.items[j].id = data.ids[j],
               fault |-> fault, attempts |-> <<>>, failedAt |-> -1,
               sizes |-> <<>>, batch |-> NoBatch]
    /\ i' = 0
    /\ out' = Quiet
    /\ UNCHANGED <<nextGen, collection, data, qn, qoutcome, found, admission>>

\* self.collection = self.client.create_collection(...)
create_collection_create(fault) ==
    /\ pc = "create"
    /\ fault => ~store.exists
    /\ calls' = calls \cup {"create_collection"}
    /\ IF store.exists \/ fault
       THEN /\ ret' = Raised("create_collection",
                             IF store.exists THEN "AlreadyExists" ELSE "StoreError")
            /\ pc' = "idle"
            /\ mainpc' = MainNext(mainpc, FALSE)
            /\ UNCHANGED <<store, nextGen, collection, out>>
       ELSE /\ store' = [exists |-> TRUE, gen |-> nextGen, items |-> <<>>]
            /\ nextGen' = nextGen + 1
            /\ collection' = nextGen
            /\ pc' = IF 0 < Len(data.documents) THEN "batch" ELSE "finish"
            /\ out' = [out EXCEPT !.totalBatches = total_batches(Len(data.documents))]
            /\ UNCHANGED <<ret, mainpc>>
    /\ run' = [run EXCEPT !.fault = run.fault \/ fault]
    /\ UNCHANGED <<data, i, qn, qoutcome, found, admission>>

\* one turn of `for i in range(0, len(documents), batch_size)`
create_collection_add(fault) ==
    /\ pc = "batch"
    /\ LET n              == Len(data.documents)
           batch_docs     == Slice(data.documents, i, i + batch_size)
           batch_ids      == Slice(data.ids, i, i + batch_size)
           batch_metadata == Slice(data.metadatas, i, i + batch_size)
           failing        == fault \/ ~Live(collection)
                                   \/ AddRejected(store.items, batch_ids)
           after          == AfterFailedAdd(i, n)
           submitted      == [documents |-> batch_docs, metadatas |-> batch_metadata,
                              ids |-> batch_ids]
       IN  IF failing
           THEN /\ out' = [out EXCEPT !.failedBatch = BatchNum(i)]
                /\ pc' = after.pc
                /\ i' = after.i
                /\ store' = store
                /\ run' = [run EXCEPT !.attempts = Append(@, i),
                                      !.failedAt = IF @ = -1 THEN i ELSE @,
                                      !.sizes = Append(@, Len(batch_ids)),
                                      !.batch = submitted]
           ELSE /\ store' = [store EXCEPT !.items =
                        @ \o Entries(batch_docs, batch_metadata, batch_ids, store.gen)]
                /\ i' = i + batch_size
                /\ pc' = IF i + batch_size < n THEN "batch" ELSE "finish"
                /\ out' = out
                /\ run' = [run EXCEPT !.attempts = Append(@, i),
                                      !.sizes = Append(@, Len(batch_ids)),
                                      !.batch = submitted]
    /\ calls' = calls \cup {"add"}
    /\ UNCHANGED <<nextGen, collection, data, mainpc, qn, ret, qoutcome, found, admission>>

\* the closing print of self.collection.count() and the implicit `return None`
create_collection_end ==
    /\ pc = "finish"
    /\ out' = [out EXCEPT !.count = Len(store.items)]
    /\ ret' = Returned("create_collection", NoneValue)
    /\ pc' = "idle"
    /\ mainpc' = MainNext(mainpc, TRUE)
    /\ calls' = calls \cup {"count"}
    /\ UNCHANGED <<store, nextGen, collection, data, i, run, qn, qoutcome, found, admission>>

----------------------------------------------------------------------------
(* Queries *)

Filters == {"all", "even", "nomatch"}

NResults == {3, 5}

\* whether the entry's metadata satisfies the where filter (None admits every entry)
Matches(filter, entry) ==
    CASE filter = "all"     -> TRUE
      [] filter = "even"    -> entry.metadata[2] % 2 = 0
      [] filter = "nomatch" -> FALSE

\* collection.query: the documents of at most n_results entries that satisfy the filter
Hits(items, n_results, filter) ==
    LET Test(e) == Matches(filter, e)
        hit     == Slice(SelectSeq(items, Test), 0, n_results)
    IN  [j \in 1..Len(hit) |-> hit[j].document]

GuardMissing(handle) == FALSE

\* `if not self.collection:`
NotInitialized(handle) == handle = None

QueryErrorReraised == Raised("query_programs", "Exception")

\* `except Exception as e: print(...); return {}`
QueryErrorOutcome == Returned("query_programs", EmptyDict)

query_programs(n_results, filter, fault) ==
    /\ pc = "idle"
    /\ mainpc \in {"none", "query"}
    /\ fault => collection # None
    /\ IF NotInitialized(collection)
       THEN /\ ret' = Raised("query_programs", "ValueError")
            /\ qoutcome' = "uninit"
            /\ out' = Quiet
            /\ calls' = CallsSoFar
            /\ mainpc' = IF mainpc = "none" THEN "none" ELSE "done"
       ELSE IF collection = None \/ ~Live(collection) \/ fault
       THEN /\ ret' = QueryErrorOutcome
            /\ qoutcome' = "failed"
            /\ out' = [Quiet EXCEPT !.queryFailed = TRUE]
            /\ calls' = CallsSoFar \cup (IF collection = None THEN {} ELSE {"query"})
            /\ mainpc' = IF ret'.kind = "return" \/ mainpc = "none"
                         THEN MainNext(mainpc, TRUE) ELSE "done"
       ELSE LET docs == Hits(store.items, n_results, filter) IN
            /\ ret' = Returned("query_programs", QueryResult(docs))
            /\ qoutcome' = IF docs = <<>> THEN "empty" ELSE "hits"
            /\ out' = Quiet
            /\ calls' = CallsSoFar \cup {"query"}
            /\ mainpc' = MainNext(mainpc, TRUE)
    /\ qn' = IF mainpc = "query" THEN qn + 1 ELSE qn
    /\ UNCHANGED <<store, nextGen, collection, data, pc, i, run, found, admission>>

OnlyFalsyDict(res) == res.keys = {}

\* `not results or not results.get('documents') or not results['documents'][0]`
NoResults(res) ==
    \/ res.keys = {}
    \/ "documents" \notin res.keys
    \/ res.documents = <<>>
    \/ res.documents[1] = <<>>

\* what print_query_results writes for a value: the one-line "no result found"
\* message, or the listing of the results
Reported(res) == IF NoResults(res) THEN "not_found" ELSE "listing"

print_query_results ==
    /\ pc = "idle"
    /\ mainpc \in {"none", "print"}
    /\ ret.op = "query_programs"
    /\ ret.kind = "return"
    /\ out' = [Quiet EXCEPT !.printed = Reported(ret.value)]
    /\ ret' = Returned("print_query_results", NoneValue)
    /\ mainpc' = MainNext(mainpc, qn < MainQueries)
    /\ calls' = CallsSoFar
    /\ UNCHANGED <<store, nextGen, collection, data, pc, i, run, qn, qoutcome, found, admission>>

get_collection_stats ==
    /\ pc = "idle"
    /\ mainpc \in {"none", "stats"}
    /\ IF collection = None
       THEN /\ out' = [Quiet EXCEPT !.printed = "uninitialized"]
            /\ ret' = Returned("get_collection_stats", NoneValue)
            /\ calls' = CallsSoFar
            /\ mainpc' = MainNext(mainpc, TRUE)
       ELSE IF ~Live(collection)
       THEN /\ out' = Quiet
            /\ ret' = Raised("get_collection_stats", "StoreError")
            /\ calls' = CallsSoFar \cup {"get"}
            /\ mainpc' = IF mainpc = "none" THEN "none" ELSE "done"
       ELSE /\ out' = [Quiet EXCEPT !.count = Len(store.items), !.printed = "stats"]
            /\ ret' = Returned("get_collection_stats", NoneValue)
            /\ calls' = CallsSoFar \cup {"get"}
            /\ mainpc' = MainNext(mainpc, TRUE)
    /\ UNCHANGED <<store, nextGen, collection, data, pc, i, run, qn, qoutcome, found, admission>>

----------------------------------------------------------------------------

Next ==
    \/ NewInstance
    \/ main_start
    \/ get_existing_collection
    \/ \E csvExists \in BOOLEAN, colsOK \in BOOLEAN, n \in RowCounts :
          load_and_process_data(csvExists, colsOK, n)
    \/ \E recreate \in BOOLEAN, fault \in BOOLEAN :
          create_collection_delete(recreate, fault)
    \/ \E fault \in BOOLEAN : create_collection_create(fault)
    \/ \E fault \in BOOLEAN : create_collection_add(fault)
    \/ create_collection_end
    \/ \E n_results \in NResults, filter \in Filters, fault \in BOOLEAN :
          query_programs(n_results, filter, fault)
    \/ print_query_results
    \/ get_collection_stats

Spec == Init /\ [][Next]_vars

----------------------------------------------------------------------------
(* process_admission_data on its own, over the arguments tried *)

InitAdmission ==
    /\ store = NoStore
    /\ nextGen = 1
    /\ collection = None
    /\ data = NoData
    /\ pc = "idle"
    /\ i = 0
    /\ run = [recreate |-> FALSE, existed |-> FALSE, same |-> FALSE, fault |-> FALSE,
              attempts |-> <<>>, failedAt |-> -1, sizes |-> <<>>, batch |-> NoBatch]
    /\ mainpc = "none"
    /\ qn = 0
    /\ ret = NoRet
    /\ qoutcome = "none"
    /\ out = Quiet
    /\ calls = {}
    /\ found = FALSE
    /\ \E field \in Fields :
          admission = [field |-> field, stage |-> "called", result |-> Pending]

process_admission_data ==
    /\ admission.stage = "called"
    /\ admission' = [admission EXCEPT !.stage = "returned",
                                      !.result = ProcessAdmission(admission.field)]
    /\ UNCHANGED <<store, nextGen, collection, data, pc, i, run, mainpc, qn, ret,
                   qoutcome, out, calls, found>>

NextAdmission == process_admission_data

SpecAdmission == InitAdmission /\ [][NextAdmission]_vars

----------------------------------------------------------------------------
(* Properties *)

\* create_collection has run to its end and nothing was called since
Ended == pc = "idle" /\ ret = Returned("create_collection", NoneValue)

Mutating == {"delete_collection", "create_collection", "add"}

\* C1: when the add of batch k fails, create_collection ends with exactly the
\* (k-1)*batch_size entries of batches 1..k-1 in the store, none of batch k or of a
\* later batch, and the batches attempted are 1..k, each once: nothing is tried
\* after the failed batch and nothing is retried.
BatchFailFast ==
    /\ run.failedAt # -1 => pc # "batch"
    /\ (run.failedAt # -1 /\ (pc = "finish" \/ Ended)) =>
          LET k == (run.failedAt \div batch_size) + 1 IN
          /\ Len(store.items) = (k - 1) * batch_size
          /\ \A j \in 1..Len(store.items) : store.items[j].id = data.ids[j]
          /\ \A j \in ((k - 1) * batch_size + 1)..Len(data.ids) :
                data.ids[j] \notin IdsOf(store.items)
          /\ run.attempts = [j \in 1..k |-> (j - 1) * batch_size]

BatchFailFastWitness ==
    /\ Ended
    /\ run.failedAt = batch_size
    /\ Len(data.ids) > 2 * batch_size
    /\ Len(store.items) = batch_size

\* C2 as stated: after a rebuild in which a batch failed, the value returned differs
\* from the value a successful rebuild returns.
FailureVisibleInReturnValue ==
    (Ended /\ run.failedAt # -1) => ret.value # NoneValue

\* C2 amended: on a batch failure create_collection stops at once, prints the
\* 1-based index of the failing batch and then the number of committed items, and
\* returns None, the very value a successful rebuild returns.
FailureOnlyPrinted ==
    (pc = "idle" /\ ret.op = "create_collection" /\ ret.kind = "return") =>
        /\ ret.value = NoneValue
        /\ out.count = Len(store.items)
        /\ IF run.failedAt = -1
           THEN out.failedBatch = 0 /\ out.count = Len(data.ids)
           ELSE /\ run.attempts[Len(run.attempts)] = run.failedAt
                /\ out.failedBatch * batch_size = run.failedAt + batch_size
                /\ out.count = run.failedAt

FailureOnlyPrintedWitness ==
    /\ Ended
    /\ run.failedAt = batch_size
    /\ out.failedBatch = 2
    /\ out.count = batch_size

\* C3: a create_collection(recreate=True) run on a store that holds the complete
\* result of an earlier run over the same lists is not refused, starts from a
\* collection with no entry of the earlier generation, and, with no batch failure,
\* ends with the same count as before and no id twice.
RebuildReplaces ==
    /\ (pc \in {"batch", "finish"} /\ run.recreate) =>
          \A j \in 1..Len(store.items) : store.items[j].gen = store.gen
    /\ (pc = "idle" /\ ret.op = "create_collection" /\ run.recreate /\ run.same
          /\ ~run.fault) => ret.kind = "return"
    /\ (Ended /\ run.recreate /\ run.same /\ run.failedAt = -1) =>
          /\ Len(store.items) = Len(data.ids)
          /\ Cardinality(IdsOf(store.items)) = Len(store.items)
          /\ \A j \in 1..Len(store.items) : store.items[j].gen = store.gen
          /\ Live(collection)

RebuildReplacesWitness ==
    /\ Ended
    /\ run.recreate
    /\ run.same
    /\ run.failedAt = -1
    /\ Len(store.items) = MaxRows
    /\ store.gen > 1

\* C4: a query on an object whose collection handle is unset raises the
\* not-initialized ValueError and has made no embedding or store call.
QueryRejectedWhenUninitialized ==
    (ret.op = "query_programs" /\ collection = None) =>
        /\ ret = Raised("query_programs", "ValueError")
        /\ qoutcome = "uninit"
        /\ calls = {}

QueryRejectedWitness ==
    /\ ret = Raised("query_programs", "ValueError")
    /\ collection = None
    /\ store.exists
    /\ Len(store.items) > 0

\* C5 as stated: a backend failure during a query on an open collection reaches the
\* caller of query_programs as an error.
QueryFailurePropagates ==
    (ret.op = "query_programs" /\ qoutcome = "failed") => ret.kind = "raise"

\* C5 amended: a backend failure during a query on an open collection is caught
\* inside query_programs, which prints a message and returns the empty dict {} as a
\* normal return value.
QueryFailureSwallowed ==
    (ret.op = "query_programs" /\ qoutcome = "failed") =>
        /\ ret = Returned("query_programs", EmptyDict)
        /\ out.queryFailed

QueryFailureSwallowedWitness ==
    /\ ret.op = "query_programs"
    /\ qoutcome = "failed"
    /\ Live(collection)
    /\ Len(store.items) > 0

\* C6 as stated: an empty result is told apart from a failed query also in what
\* print_query_results reports.
EmptyReportedUnlikeFailure ==
    (ret.op = "print_query_results" /\ qoutcome = "failed") =>
        out.printed # Reported(QueryResult(<<>>))

\* C6 amended: a query that matches nothing returns, without error, a result whose
\* 'documents' holds one empty list, which differs from the {} returned for a failed
\* query; print_query_results reports the same no-result message for both.
EmptyResultExplicit ==
    /\ (ret.op = "query_programs" /\ qoutcome = "empty") =>
          /\ ret.kind = "return"
          /\ ret.value.keys # {}
          /\ ret.value.documents = << <<>> >>
    /\ (ret.op = "query_programs" /\ qoutcome = "failed" /\ ret.kind = "return") =>
          ret.value.keys = {}
    /\ (ret.op = "print_query_results" /\ qoutcome \in {"empty", "failed"}) =>
          out.printed = "not_found"

EmptyResultWitness ==
    /\ ret.op = "print_query_results"
    /\ qoutcome = "empty"
    /\ out.printed = "not_found"
    /\ Live(collection)
    /\ store.items = <<>>

\* C7: in a create_collection(recreate=True) call in which the store itself does not
\* break down, the delete + create steps raise nothing whether or not the collection
\* existed, and just before the first batch the collection exists, is empty and is the
\* one the handle names.
RecreateIdempotent ==
    /\ (run.recreate /\ ~run.fault /\ pc = "idle" /\ ret.op = "create_collection") =>
          ret.kind = "return"
    /\ (run.recreate /\ ~run.fault /\ pc = "create") => ~store.exists
    /\ (run.recreate /\ pc \in {"batch", "finish"} /\ run.attempts = <<>>) =>
          /\ store.exists
          /\ store.items = <<>>
          /\ Live(collection)

RecreateIdempotentWitness ==
    /\ run.recreate
    /\ run.existed
    /\ pc = "batch"
    /\ run.attempts = <<>>
    /\ store.items = <<>>

\* C8: when load_and_process_data fails inside main(), no collection has been
\* deleted or created and no item added by the time main() reports the error.
SourceErrorBeforeMutation ==
    (mainpc # "none" /\ ret.op = "load_and_process_data" /\ ret.kind = "raise") =>
        /\ calls \cap Mutating = {}
        /\ ~store.exists
        /\ mainpc = "done"

SourceErrorWitness ==
    /\ mainpc = "done"
    /\ ret = Raised("load_and_process_data", "KeyError")
    /\ nextGen > 1

\* C9: main() opens the collection and runs no delete, create or add when the
\* collection existed at its start; it loads the dataset, and on a successful load
\* runs create_collection, exactly when it did not.
LoadOrBuild ==
    /\ (mainpc \notin {"none", "open"} /\ found) =>
          /\ calls \cap Mutating = {}
          /\ pc = "idle"
          /\ ~data.loaded
          /\ Live(collection)
    /\ mainpc \in {"load", "build"} => ~found
    /\ (mainpc # "none" /\ calls \cap Mutating # {}) => (~found /\ data.loaded)
    /\ (mainpc \in {"stats", "query", "print"} /\ ~found) =>
          "create_collection" \in calls
    /\ (mainpc = "done" /\ ~found /\ pc = "idle") =>
          \/ ret.op = "load_and_process_data" /\ ret.kind = "raise"
          \/ "create_collection" \in calls

LoadOrBuildWitness ==
    /\ mainpc = "stats"
    /\ found
    /\ run.failedAt = batch_size
    /\ Len(store.items) = batch_size

\* C10: no two entries of the collection share an id, and the entry built from the
\* row at ordinal position r has the id program_r.
IdUniqueness ==
    /\ Cardinality(IdsOf(store.items)) = Len(store.items)
    /\ \A j \in 1..Len(store.items) :
          \E r \in 0..MaxRows :
             /\ store.items[j].document = create_document_text(r)
             /\ store.items[j].id = <<"program_", r>>

IdUniquenessWitness ==
    /\ store.gen > 1
    /\ Len(store.items) = 2 * batch_size
    /\ run.failedAt = 2 * batch_size
    /\ pc = "idle"

\* C11: create_collection submits its batches in ascending row order, each of 1 to
\* batch_size items, each row in exactly one batch, the j-th id, document and
\* metadata of a batch coming from the same row; a run with no batch failure submits
\* ceil(N / batch_size) batches (none for N = 0) and leaves exactly N entries, the
\* entry program_r carrying the document and the metadata of row r.
BatchPartition ==
    (pc \in {"batch", "finish"} \/ Ended) =>
        LET n == Len(data.documents)
            m == Len(run.attempts)
        IN  /\ Len(run.sizes) = m
            /\ \A j \in 1..m :
                  /\ run.sizes[j] \in 1..batch_size
                  /\ run.attempts[j] = (j - 1) * batch_size
                  /\ run.attempts[j] + run.sizes[j] <= n
                  /\ j < m => run.attempts[j + 1] = run.attempts[j] + run.sizes[j]
            /\ m > 0 =>
                  /\ Len(run.batch.ids) = run.sizes[m]
                  /\ Len(run.batch.documents) = run.sizes[m]
                  /\ Len(run.batch.metadatas) = run.sizes[m]
                  /\ \A j \in 1..run.sizes[m] :
                        LET r == run.attempts[m] + j - 1 IN
                        /\ run.batch.ids[j] = <<"program_", r>>
                        /\ run.batch.documents[j] = create_document_text(r)
                        /\ run.batch.metadatas[j] = Metadata(r)
            /\ ((pc = "finish" \/ Ended) /\ run.failedAt = -1) =>
                  /\ m * batch_size >= n
                  /\ m > 0 => (m - 1) * batch_size < n
                  /\ m > 0 => run.attempts[m] + run.sizes[m] = n
                  /\ out.totalBatches = m
                  /\ Len(store.items) = n
                  /\ \A j \in 1..n :
                        /\ store.items[j].id = <<"program_", j - 1>>
                        /\ store.items[j].document = create_document_text(j - 1)
                        /\ store.items[j].metadata = Metadata(j - 1)

BatchPartitionWitness ==
    /\ Ended
    /\ run.failedAt = -1
    /\ Len(run.sizes) = 3
    /\ run.sizes[3] \in 1..(batch_size - 1)
    /\ Len(store.items) = MaxRows

\* whether the text, after quote normalisation, parses as a list of mappings
ListOfMappings(field) ==
    /\ field.type = "str"
    /\ field.form = "text"
    /\ WellFormed(Normalise(field.tree))
    /\ Normalise(field.tree).t = "list"
    /\ \A j \in 1..Len(field.tree.body) : field.tree.body[j].t = "dict"

\* C12: process_admission_data never raises; it returns the no-cases sentinel for an
\* absent, empty or 'null' field, the labelled raw value for every other value that
\* does not parse, after quote normalisation, as a list of mappings, and otherwise
\* one rendered sentence per case.
AdmissionSynthesis ==
    admission.stage = "returned" =>
        LET field  == admission.field
            result == admission.result
        IN  /\ result.kind \in {"sentinel", "fallback", "narrative"}
            /\ NoHistory(field) => result = Sentinel
            /\ (~NoHistory(field) /\ ~ListOfMappings(field)) =>
                  result = Fallback(field)
            /\ (~NoHistory(field) /\ ListOfMappings(field)) =>
                  /\ result.kind = "narrative"
                  /\ Len(result.cases) = Len(field.tree.body)
                  /\ \A j \in 1..Len(result.cases) :
                        result.cases[j] = Sentence(Normalise(field.tree).body[j])

\* C13: between calls a non-empty self.collection is a handle to the generation
\* that exists in the store under collection_name, and query_programs is never run
\* against a handle whose collection has been deleted.
HandleValid ==
    /\ (pc = "idle" /\ collection # None) => Live(collection)
    /\ (ret.op = "query_programs" /\ qoutcome \in {"hits", "empty", "failed"}) =>
          Live(collection)

====
